---- MODULE Spec2Model ----
(***************************************************************************)
(* oradex: extraction of Oracle DDL.  A text is a sequence of tokens; a    *)
(* token is one character ("\n", " ", "/", "-", ".", ";", a letter) or one *)
(* keyword the code matches as a unit ("ALTER", "ON", "ALTER TRIGGER").    *)
(* A keyword token stands for exactly its letters, so "ALTER" followed by  *)
(* " " is the text the pattern "ALTER " matches.                           *)
(***************************************************************************)
EXTENDS Integers, Sequences, FiniteSets, TLC

VARIABLES
    db,            \* what the database answers to each query
    schema,        \* owning schema handed to the library call
    objType,       \* object type handed to the library call
    quiet,         \* -q
    neededGrants,  \* -needed
    objectGrants,  \* -grants
    op,            \* the library call that has returned ("" before any)
    ret,           \* what that call returned and did
    pc,            \* where main is ("idle": the program is not run)
    mode,          \* what the flags ask for: the version, one object, schemas
    handle,        \* the database handle: "none", "open", "closed"
    configured,    \* InitDbmsMetadata has set the session's transform parameters
    exitCode,      \* the process's exit status (-1 while it runs)
    failedAt,      \* the call whose error failOnErr was handed ("" if none)
    selected,      \* the schemas getSchemaList returned
    schemasLeft,   \* extractSchemas: the schemas still to extract, the current one first
    visited,       \* the schemas getObjList was asked about
    objsLeft,      \* extractSchema: the objects still to extract
    attempted,     \* the <<schema, object>> whose extraction was begun, in order
    nFailed,       \* how many of them met an error
    nWritten,      \* how many files were written
    issued         \* how many times main has made each of its calls

libVars == <<db, schema, objType, op, ret>>
flagVars == <<quiet, neededGrants, objectGrants>>
mainVars == <<pc, mode, handle, configured, exitCode, failedAt, selected, schemasLeft,
              visited, objsLeft, attempted, nFailed, nWritten, issued>>
vars == <<libVars, flagVars, mainVars>>

(***************************************************************************)
(* Bounds of the model.                                                    *)
(***************************************************************************)
MaxRawLen == 5
MaxTrigLen == 7
MaxDDLLen == 7
MaxSchemas == 2
MaxObjs == 2
MaxAlterLen == 5

(***************************************************************************)
(* Program constants.                                                      *)
(***************************************************************************)
typeDatabaseLink == "DATABASE LINK"
typeMaterializedView == "MATERIALIZED VIEW"
typeTable == "TABLE"
typeView == "VIEW"

\* the cutset "\n\r\t " of trimString and trimLine, and the class [\n\r\t ]
WS == {"\n", "\r", "\t", " "}

\* the byte a token starts with: sort.Strings compares bytes
Byte(c) ==
    CASE c = "\t" -> 9
      [] c = "\n" -> 10
      [] c = "\r" -> 13
      [] c = " " -> 32
      [] c = "\"" -> 34
      [] c = "-" -> 45
      [] c = "." -> 46
      [] c = "/" -> 47
      [] c = ";" -> 59
      [] c = "ALTER" -> 65
      [] c = "ALTER TRIGGER" -> 65
      [] c = "HR" -> 72
      [] c = "ON" -> 79
      [] c = "a" -> 97
      [] c = "b" -> 98
      [] c = "c" -> 99
      [] c = "g" -> 103
      [] c = "i" -> 105
      [] c = "k" -> 107
      [] c = "m" -> 109
      [] c = "n" -> 110
      [] c = "on" -> 111
      [] c = "t" -> 116
      [] c = "x" -> 120
      [] OTHER -> 122

\* runtime.GOOS of the build
GOOS == "linux"

newLine ==
    IF GOOS = "windows" THEN <<"\r", "\n">> ELSE <<"\n">>

dblSpace == newLine \o newLine

RECURSIVE trimLine(_)
trimLine(s) ==
    IF s # <<>> /\ s[Len(s)] \in WS THEN trimLine(SubSeq(s, 1, Len(s) - 1)) ELSE s

RECURSIVE TrimLeft(_)
TrimLeft(s) ==
    IF s # <<>> /\ s[1] \in WS THEN TrimLeft(Tail(s)) ELSE s

trimString(s) == TrimLeft(trimLine(s))

appendLine(s, l) == Append(s, trimLine(l))

\* strings.Join
RECURSIVE Join(_, _)
Join(l, sep) ==
    IF l = <<>> THEN <<>>
    ELSE IF Len(l) = 1 THEN l[1]
    ELSE l[1] \o sep \o Join(Tail(l), sep)

\* strings.Replace(s, "\r\n", "\n", -1)
RECURSIVE ReplaceCRLF(_)
ReplaceCRLF(s) ==
    IF s = <<>> THEN <<>>
    ELSE IF Len(s) >= 2 /\ s[1] = "\r" /\ s[2] = "\n"
         THEN <<"\n">> \o ReplaceCRLF(SubSeq(s, 3, Len(s)))
         ELSE <<s[1]>> \o ReplaceCRLF(Tail(s))

\* strings.Split(s, "\n"): cur is the piece being read
RECURSIVE SplitNL(_, _)
SplitNL(s, cur) ==
    IF s = <<>> THEN <<cur>>
    ELSE IF s[1] = "\n" THEN <<cur>> \o SplitNL(Tail(s), <<>>)
    ELSE SplitNL(Tail(s), Append(cur, s[1]))

splitLines(s) == SplitNL(ReplaceCRLF(s), <<>>)

\* regexp.MustCompile("--").FindString(line) # ""
HasDashDash(line) ==
    \E i \in 1..(Len(line) - 1) : line[i] = "-" /\ line[i + 1] = "-"

\* the number of tokens of [\n\r\t ] at the head of s
RECURSIVE WsRun(_)
WsRun(s) ==
    IF s # <<>> /\ s[1] \in WS THEN 1 + WsRun(Tail(s)) ELSE 0

\* regexp "[\n\r\t ]+/\n" .ReplaceAllString(s, "\n/\n"): leftmost matches, the
\* class greedy, the search resumed after each match
RECURSIVE CollapseBeforeSlash(_)
CollapseBeforeSlash(s) ==
    IF s = <<>> THEN <<>>
    ELSE LET n == WsRun(s) IN
         IF n >= 1 /\ Len(s) >= n + 2 /\ s[n + 1] = "/" /\ s[n + 2] = "\n"
         THEN <<"\n", "/", "\n">> \o CollapseBeforeSlash(SubSeq(s, n + 3, Len(s)))
         ELSE <<s[1]>> \o CollapseBeforeSlash(Tail(s))

\* ObjDDL looking for the comment marker in the whole text, not its last line
FixDDL_AnyLine(raw, type) ==
    LET DDL == trimString(raw)
        s == splitLines(DDL)
    IN  IF type \in {typeView, typeMaterializedView}
        THEN IF HasDashDash(DDL)
             THEN Join(Append(s, <<";">>), newLine)
             ELSE DDL
        ELSE CollapseBeforeSlash(DDL)

\* ObjDDL after a row was scanned: the trim and the fix by type
FixDDL(raw, type) ==
    LET DDL == trimString(raw)
        s == splitLines(DDL)
    IN  IF type \in {typeView, typeMaterializedView}
        THEN IF HasDashDash(s[Len(s)])
             THEN Join(Append(s, <<";">>), newLine)
             ELSE DDL
        ELSE CollapseBeforeSlash(DDL)

(***************************************************************************)
(* A query's answer: err (db.Query or rows.Scan failed) or its rows.       *)
(***************************************************************************)
Answer(e, r) == [err |-> e, rows |-> r]
NoAnswer == Answer(FALSE, <<>>)

\* ObjDDL: "" and the error when the query fails, "" when there is no row
ObjDDL(d, type) ==
    IF d.ddl.err THEN [text |-> <<>>, err |-> "ObjDDL"]
    ELSE IF d.ddl.rows = <<>> THEN [text |-> <<>>, err |-> ""]
    ELSE [text |-> FixDDL(d.ddl.rows[1], type), err |-> ""]

\* the cutset "\n\r\t /" of strings.TrimRight in ObjTriggers
RECURSIVE TrimRightSlash(_)
TrimRightSlash(s) ==
    IF s # <<>> /\ s[Len(s)] \in (WS \cup {"/"})
    THEN TrimRightSlash(SubSeq(s, 1, Len(s) - 1))
    ELSE s

\* where "[\n\r\t ][Oo][Nn][\n\r\t ]+" first matches in s at or after i (0: nowhere)
RECURSIVE FindOn(_, _)
FindOn(s, i) ==
    IF i + 2 > Len(s) THEN 0
    ELSE IF s[i] \in WS /\ s[i + 1] \in {"ON", "on"} /\ s[i + 2] \in WS THEN i
    ELSE FindOn(s, i + 1)

\* regexp "[\n\r\t ]+" .Split(s, 2)[0]: s up to its first white space
RECURSIVE UpToWs(_)
UpToWs(s) ==
    IF s = <<>> \/ s[1] \in WS THEN <<>> ELSE <<s[1]>> \o UpToWs(Tail(s))

\* strings.Split(s, sep) for a one-token sep: cur is the piece being read
RECURSIVE SplitTok(_, _, _)
SplitTok(s, sep, cur) ==
    IF s = <<>> THEN <<cur>>
    ELSE IF s[1] = sep THEN <<cur>> \o SplitTok(Tail(s), sep, <<>>)
    ELSE SplitTok(Tail(s), sep, Append(cur, s[1]))

\* the ON step looking for the "." in all that follows ON, not in the table
\* reference alone
OnClause_AnyDot(rslt, owner) ==
    LET at == FindOn(rslt, 1) IN
    IF at = 0 THEN [rslt |-> rslt, found |-> FALSE]
    ELSE LET s0 == SubSeq(rslt, 1, at - 1)
             after == SubSeq(rslt, at + 2, Len(rslt))
             s1 == SubSeq(after, WsRun(after) + 1, Len(after))
             u == SplitTok(s1, ".", <<>>)
         IN  IF Len(u) = 1
             THEN [rslt |-> s0 \o <<" ", "ON", " ", "\"", owner, "\"", ".">> \o s1,
                   found |-> TRUE]
             ELSE [rslt |-> rslt, found |-> TRUE]

\* ObjTriggers, the ON step on one trimmed trigger text: the text after the
\* step and whether carp was handed the "Funky triggers" error
OnClause(rslt, owner) ==
    LET at == FindOn(rslt, 1) IN
    IF at = 0 THEN [rslt |-> rslt, found |-> FALSE]
    ELSE LET s0 == SubSeq(rslt, 1, at - 1)
             after == SubSeq(rslt, at + 2, Len(rslt))
             s1 == SubSeq(after, WsRun(after) + 1, Len(after))
             t0 == UpToWs(s1)
             u == SplitTok(t0, ".", <<>>)
         IN  IF Len(u) = 1
             THEN [rslt |-> s0 \o <<" ", "ON", " ", "\"", owner, "\"", ".">> \o s1,
                   found |-> TRUE]
             ELSE [rslt |-> rslt, found |-> TRUE]

\* ObjTriggers, the fragments one trigger text adds to triggers
RECURSIVE AlterTriggers(_)
AlterTriggers(v) ==
    IF v = <<>> THEN <<>>
    ELSE <<<<"ALTER TRIGGER">> \o TrimRightSlash(v[1])>> \o AlterTriggers(Tail(v))

TriggerFragments(rslt, found) ==
    LET v == SplitTok(rslt, "ALTER TRIGGER", <<>>) IN
    IF found
    THEN <<TrimRightSlash(v[1]) \o newLine \o <<"/">>>> \o AlterTriggers(Tail(v))
    ELSE <<TrimRightSlash(rslt) \o newLine \o <<"/">>>>

\* ObjTriggers, the loop over the rows: the fragments, the texts after the ON
\* step and the errors handed to carp
RECURSIVE TriggerRows(_, _)
TriggerRows(rows, owner) ==
    IF rows = <<>> THEN [triggers |-> <<>>, fixed |-> <<>>, carps |-> <<>>]
    ELSE LET o == OnClause(trimString(rows[1]), owner)
             rest == TriggerRows(Tail(rows), owner)
         IN  [triggers |-> TriggerFragments(o.rslt, o.found) \o rest.triggers,
              fixed |-> <<o.rslt>> \o rest.fixed,
              carps |-> (IF o.found THEN <<>> ELSE <<"Funky triggers">>) \o rest.carps]

ObjTriggers(d, owner) ==
    IF d.trg.err
    THEN [text |-> <<>>, err |-> "ObjTriggers", fixed |-> <<>>, carps |-> <<>>]
    ELSE LET r == TriggerRows(d.trg.rows, owner) IN
         [text |-> Join(r.triggers, dblSpace), err |-> "", fixed |-> r.fixed,
          carps |-> r.carps]

\* carp: what reaches the log of a run with the -q flag as given
Logged(q, carps) == IF q THEN <<>> ELSE carps

\* runQuery: the rows, each trimmed at its end, joined by a blank line; who
\* names the query, and is the error a failed query returns
RECURSIVE TrimRows(_)
TrimRows(rows) ==
    IF rows = <<>> THEN <<>> ELSE appendLine(<<>>, rows[1]) \o TrimRows(Tail(rows))

runQuery(ans, who) ==
    IF ans.err THEN [text |-> <<>>, err |-> who]
    ELSE [text |-> Join(TrimRows(ans.rows), dblSpace), err |-> ""]

ColComments(d) == runQuery(d.col, "ColComments")
ObjGrantedPrivs(d) == runQuery(d.grant, "ObjGrantedPrivs")
ObjIndices(d) == runQuery(d.idx, "ObjIndices")
ObjNeededPrivs(d) == runQuery(d.need, "ObjNeededPrivs")
MViewComments(d) == runQuery(d.com, "MViewComments")
TableComments(d) == runQuery(d.com, "TableComments")
ObjComments(d, type) ==
    IF type = typeMaterializedView THEN MViewComments(d) ELSE TableComments(d)

\* the split made at the first ALTER only: regexp .Split(s, 2)
RECURSIVE SplitAlter_FirstOnly(_, _)
SplitAlter_FirstOnly(s, cur) ==
    IF s = <<>> THEN <<cur>>
    ELSE LET n == WsRun(s) IN
         IF Len(s) >= n + 2 /\ s[n + 1] = "ALTER" /\ s[n + 2] = " "
         THEN <<cur, SubSeq(s, n + 3, Len(s))>>
         ELSE SplitAlter_FirstOnly(Tail(s), Append(cur, s[1]))

\* regexp "[\n\r\t ]*ALTER " .Split(s, -1): leftmost matches, the class greedy;
\* cur is the piece being read
RECURSIVE SplitAlter(_, _)
SplitAlter(s, cur) ==
    IF s = <<>> THEN <<cur>>
    ELSE LET n == WsRun(s) IN
         IF Len(s) >= n + 2 /\ s[n + 1] = "ALTER" /\ s[n + 2] = " "
         THEN <<cur>> \o SplitAlter(SubSeq(s, n + 3, Len(s)), <<>>)
         ELSE SplitAlter(Tail(s), Append(cur, s[1]))

\* a < b for Go strings: byte by byte, a proper prefix first
RECURSIVE Less(_, _)
Less(a, b) ==
    IF b = <<>> THEN FALSE
    ELSE IF a = <<>> THEN TRUE
    ELSE IF a[1] = b[1] THEN Less(Tail(a), Tail(b))
    ELSE Byte(a[1]) < Byte(b[1])

RECURSIVE Insert(_, _)
Insert(x, l) ==
    IF l = <<>> THEN <<x>>
    ELSE IF Less(l[1], x) THEN <<l[1]>> \o Insert(x, Tail(l))
    ELSE <<x>> \o l

\* sort.Strings left out: the commands in the order the service gave them
SortStrings_Unsorted(l) == l

\* sort.Strings
RECURSIVE SortStrings(_)
SortStrings(l) ==
    IF l = <<>> THEN <<>> ELSE Insert(l[1], SortStrings(Tail(l)))

\* exportTableView, the loop over the sorted ALTER commands
RECURSIVE AlterLines(_, _)
AlterLines(l, sorted) ==
    IF sorted = <<>> THEN l
    ELSE AlterLines(appendLine(l, <<"ALTER", " ">> \o sorted[1]), Tail(sorted))

\* the errors carp is handed (carp of a nil error does nothing)
Carp(e) == IF e = "" THEN <<>> ELSE <<e>>

\* exportTableView with the indices appended after the ALTER commands
TableViewLines_IndexLast(d, type, o, tr) ==
    LET s == SplitAlter(o.text, <<>>)
        l1 == appendLine(<<>>, s[1])
        indexed == type \in {typeTable, typeMaterializedView}
        ix == ObjIndices(d)
        l2 == IF Len(s) > 1 THEN AlterLines(l1, SortStrings(Tail(s))) ELSE l1
        l3 == IF indexed THEN appendLine(l2, ix.text) ELSE l2
        cm == ObjComments(d, type)
        cc == ColComments(d)
        l6 == appendLine(appendLine(appendLine(l3, cm.text), cc.text), tr.text)
    IN  [text |-> Join(l6, dblSpace), err |-> tr.err, calls |-> <<"ObjDDL">>,
         carps |-> <<>>, fixed |-> tr.fixed]

\* exportTableView after ObjDDL returned o without an error; tr is what
\* ObjTriggers returns
TableViewLines(d, type, o, tr) ==
    LET s == SplitAlter(o.text, <<>>)
        l1 == appendLine(<<>>, s[1])
        indexed == type \in {typeTable, typeMaterializedView}
        ix == ObjIndices(d)
        l2 == IF indexed THEN appendLine(l1, ix.text) ELSE l1
        l3 == IF Len(s) > 1 THEN AlterLines(l2, SortStrings(Tail(s))) ELSE l2
        cm == ObjComments(d, type)
        l4 == appendLine(l3, cm.text)
        cc == ColComments(d)
        l5 == appendLine(l4, cc.text)
        l6 == appendLine(l5, tr.text)
    IN  [text |-> Join(l6, dblSpace),
         err |-> tr.err,
         calls |-> <<"ObjDDL">> \o (IF indexed THEN <<"ObjIndices">> ELSE <<>>)
                   \o <<IF type = typeMaterializedView THEN "MViewComments"
                        ELSE "TableComments", "ColComments", "ObjTriggers">>,
         carps |-> (IF indexed THEN Carp(ix.err) ELSE <<>>) \o Carp(cm.err)
                   \o Carp(cc.err) \o tr.carps \o Carp(tr.err),
         fixed |-> tr.fixed]

exportTableView(d, owner, type) ==
    \* each call's result is bound once and used by value
    CHOOSE r \in UNION {
               IF o.err # ""
               THEN {[text |-> <<>>, err |-> o.err, calls |-> <<"ObjDDL">>,
                      carps |-> <<>>, fixed |-> <<>>]}
               ELSE {TableViewLines(d, type, o, tr) : tr \in {ObjTriggers(d, owner)}}
               : o \in {ObjDDL(d, type)}} : TRUE

\* ExportDDL asking for the needed privileges whatever the flag says, and
\* using the answer only under the flag
ExportLines_AlwaysNeeded(d, o, needed, grants) ==
    LET ng == ObjNeededPrivs(d)
        l1 == IF needed THEN appendLine(<<>>, ng.text) ELSE <<>>
        l2 == appendLine(l1, o.text)
        gr == ObjGrantedPrivs(d)
        l3 == IF grants THEN appendLine(l2, gr.text) ELSE l2
    IN  [text |-> Join(l3, dblSpace),
         err |-> IF grants THEN gr.err ELSE ng.err,
         calls |-> <<"ObjNeededPrivs">> \o o.calls
                   \o (IF grants THEN <<"ObjGrantedPrivs">> ELSE <<>>),
         carps |-> Carp(ng.err) \o o.carps \o (IF grants THEN Carp(gr.err) ELSE <<>>),
         fixed |-> o.fixed]

\* ExportDDL after the object's DDL o was built without an error
ExportLines(d, o, needed, grants) ==
    LET ng == ObjNeededPrivs(d)
        l1 == IF needed THEN appendLine(<<>>, ng.text) ELSE <<>>
        l2 == appendLine(l1, o.text)
        gr == ObjGrantedPrivs(d)
        l3 == IF grants THEN appendLine(l2, gr.text) ELSE l2
    IN  [text |-> Join(l3, dblSpace),
         err |-> IF grants THEN gr.err ELSE IF needed THEN ng.err ELSE o.err,
         calls |-> (IF needed THEN <<"ObjNeededPrivs">> ELSE <<>>) \o o.calls
                   \o (IF grants THEN <<"ObjGrantedPrivs">> ELSE <<>>),
         carps |-> (IF needed THEN Carp(ng.err) ELSE <<>>) \o o.carps
                   \o (IF grants THEN Carp(gr.err) ELSE <<>>),
         fixed |-> o.fixed]

\* ExportDDL taking every object type through exportTableView
ObjectDDL_AllTableView(d, owner, type) == exportTableView(d, owner, type)

\* ExportDDL's switch on the object type
ObjectDDL(d, owner, type) ==
    IF type \in {typeTable, typeView, typeMaterializedView}
    THEN exportTableView(d, owner, type)
    ELSE LET r == ObjDDL(d, type) IN
         [text |-> r.text, err |-> r.err, calls |-> <<"ObjDDL">>, carps |-> <<>>,
          fixed |-> <<>>]

ExportDDL(d, owner, type, needed, grants) ==
    CHOOSE r \in {IF o.err # ""
                  THEN [text |-> <<>>, err |-> o.err, calls |-> o.calls,
                        carps |-> o.carps, fixed |-> o.fixed]
                  ELSE ExportLines(d, o, needed, grants)
                  : o \in {ObjectDDL(d, owner, type)}} : TRUE

Idle == [text |-> <<>>, err |-> "", calls |-> <<>>, carps |-> <<>>, logged |-> <<>>,
         fixed |-> <<>>]

EmptyDb == [ddl |-> NoAnswer, idx |-> NoAnswer, com |-> NoAnswer, col |-> NoAnswer,
            trg |-> NoAnswer, need |-> NoAnswer, grant |-> NoAnswer]

\* the calls of main that failOnErr guards or the loop of extractSchema makes
Calls == {"GetPasswd", "sql.Open", "InitDbmsMetadata", "ObjType", "ExportDDL",
          "getSchemaList", "getObjList"}

NoCalls == [c \in Calls |-> 0]

\* the program is not run: a library call is looked at on its own
MainIdle ==
    /\ pc = "idle"
    /\ mode = ""
    /\ handle = "none"
    /\ configured = FALSE
    /\ exitCode = -1
    /\ failedAt = ""
    /\ selected = <<>>
    /\ schemasLeft = <<>>
    /\ visited = <<>>
    /\ objsLeft = <<>>
    /\ attempted = <<>>
    /\ nFailed = 0
    /\ nWritten = 0
    /\ issued = NoCalls

\* all texts over alphabet A of at most n tokens
Texts(A, n) == UNION {[1..k -> A] : k \in 0..n}

(***************************************************************************)
(* SpecDDL: ObjDDL on every fetched text, and again on its own result.     *)
(***************************************************************************)
RawAlphabet == {"-", "\n", " ", "/", "x"}

InitDDL ==
    /\ \E raw \in Texts(RawAlphabet, MaxRawLen) :
          db = [EmptyDb EXCEPT !.ddl = Answer(FALSE, <<raw>>)]
    /\ schema = "HR"
    /\ objType \in {typeView, typeMaterializedView, "PROCEDURE"}
    /\ quiet = FALSE
    /\ neededGrants = FALSE
    /\ objectGrants = FALSE
    /\ op = ""
    /\ ret = Idle
    /\ MainIdle

CallObjDDL ==
    /\ op = ""
    /\ op' = "ObjDDL"
    /\ LET r == ObjDDL(db, objType) IN
       ret' = [Idle EXCEPT !.text = r.text, !.err = r.err, !.calls = <<"ObjDDL">>]
    /\ UNCHANGED <<db, schema, objType, flagVars, mainVars>>

\* the service returns what ObjDDL returned before: the fix on its own result
RefetchObjDDL ==
    /\ op = "ObjDDL"
    /\ op' = "ObjDDL again"
    /\ LET r == ObjDDL([db EXCEPT !.ddl = Answer(FALSE, <<ret.text>>)], objType) IN
       ret' = [ret EXCEPT !.fixed = <<r.text>>]
    /\ UNCHANGED <<db, schema, objType, flagVars, mainVars>>

NextDDL == CallObjDDL \/ RefetchObjDDL

SpecDDL == InitDDL /\ [][NextDDL]_vars

(***************************************************************************)
(* SpecTrig: ObjTriggers on every trigger text the service may return.     *)
(***************************************************************************)
TrigAlphabet == {" ", "ON", ".", "x"}

InitTrig ==
    /\ \E t \in Texts(TrigAlphabet, MaxTrigLen) :
          db = [EmptyDb EXCEPT !.trg = Answer(FALSE, <<t>>)]
    /\ schema = "HR"
    /\ objType = typeTable
    /\ quiet \in BOOLEAN
    /\ neededGrants = FALSE
    /\ objectGrants = FALSE
    /\ op = ""
    /\ ret = Idle
    /\ MainIdle

CallObjTriggers ==
    /\ op = ""
    /\ op' = "ObjTriggers"
    /\ LET r == ObjTriggers(db, schema) IN
       ret' = [Idle EXCEPT !.text = r.text, !.err = r.err, !.calls = <<"ObjTriggers">>,
                           !.carps = r.carps, !.logged = Logged(quiet, r.carps),
                           !.fixed = r.fixed]
    /\ UNCHANGED <<db, schema, objType, flagVars, mainVars>>

NextTrig == CallObjTriggers

SpecTrig == InitTrig /\ [][NextTrig]_vars

(***************************************************************************)
(* SpecTrigSplit: ObjTriggers on every trigger text that may hold ALTER    *)
(* TRIGGER statements, an ON clause and block terminators.                 *)
(***************************************************************************)
TrigSplitAlphabet == {" ", "ON", "ALTER TRIGGER", "/", "x"}

InitTrigSplit ==
    /\ \E t \in Texts(TrigSplitAlphabet, MaxAlterLen) :
          db = [EmptyDb EXCEPT !.trg = Answer(FALSE, <<t>>)]
    /\ schema = "HR"
    /\ objType = typeTable
    /\ quiet = TRUE
    /\ neededGrants = FALSE
    /\ objectGrants = FALSE
    /\ op = ""
    /\ ret = Idle
    /\ MainIdle

NextTrigSplit == CallObjTriggers

SpecTrigSplit == InitTrigSplit /\ [][NextTrigSplit]_vars

(***************************************************************************)
(* The call of ExportDDL, shared by SpecAssemble and SpecSplit.            *)
(***************************************************************************)
CallExportDDL ==
    /\ op = ""
    /\ op' = "ExportDDL"
    /\ \E r \in {ExportDDL(db, schema, objType, neededGrants, objectGrants)} :
       ret' = [text |-> r.text, err |-> r.err, calls |-> r.calls, carps |-> r.carps,
               logged |-> Logged(quiet, r.carps), fixed |-> r.fixed]
    /\ UNCHANGED <<db, schema, objType, flagVars, mainVars>>

(***************************************************************************)
(* SpecAssemble: ExportDDL for every object type, every pair of flags and  *)
(* every answer (an error, no row, rows) of every query.  Each query's     *)
(* rows are written in letters of their own, so that a fragment of the     *)
(* result shows the query it came from.                                    *)
(***************************************************************************)
Failed == Answer(TRUE, <<>>)

Answers(rowsets) == {Failed} \cup {Answer(FALSE, r) : r \in rowsets}

SampleDDL == {<<>>,
              <<<<"c">>>>,
              <<<<"c", "\n", "ALTER", " ", "b", "\n", "ALTER", " ", "a">>>>}

SampleTriggers == {<<>>, <<<<"t", " ", "ON", " ", "t">>>>}

InitAssemble ==
    /\ \E ddl \in Answers(SampleDDL), idx \in Answers({<<>>, <<<<"i">>>>}),
          com \in Answers({<<>>, <<<<"m">>>>}),
          col \in Answers({<<>>, <<<<"k">>, <<"k">>>>}),
          trg \in Answers(SampleTriggers),
          need \in Answers({<<>>, <<<<"n">>>>}),
          grant \in Answers({<<>>, <<<<"g">>>>}) :
          db = [ddl |-> ddl, idx |-> idx, com |-> com, col |-> col, trg |-> trg,
                need |-> need, grant |-> grant]
    /\ schema = "HR"
    /\ objType \in {typeTable, typeView, typeMaterializedView, "PROCEDURE"}
    /\ quiet \in BOOLEAN
    /\ neededGrants \in BOOLEAN
    /\ objectGrants \in BOOLEAN
    /\ op = ""
    /\ ret = Idle
    /\ MainIdle

NextAssemble == CallExportDDL

SpecAssemble == InitAssemble /\ [][NextAssemble]_vars

(***************************************************************************)
(* SpecSplit: ExportDDL of a table or view for every DDL text the service  *)
(* may return, every other query answering one row.                        *)
(***************************************************************************)
SplitAlphabet == {"ALTER", " ", "a", "b"}

InitSplit ==
    /\ \E raw \in Texts(SplitAlphabet, MaxDDLLen) :
          db = [ddl |-> Answer(FALSE, <<raw>>), idx |-> Answer(FALSE, <<<<"i">>>>),
                com |-> Answer(FALSE, <<<<"m">>>>), col |-> Answer(FALSE, <<<<"k">>>>),
                trg |-> Answer(FALSE, <<<<"t">>>>), need |-> NoAnswer,
                grant |-> NoAnswer]
    /\ schema = "HR"
    /\ objType \in {typeTable, typeView}
    /\ quiet = TRUE
    /\ neededGrants = FALSE
    /\ objectGrants = FALSE
    /\ op = ""
    /\ ret = Idle
    /\ MainIdle

NextSplit == CallExportDDL

SpecSplit == InitSplit /\ [][NextSplit]_vars

(***************************************************************************)
(* Properties of ExportDDL.                                                *)
(***************************************************************************)
Returned == op = "ExportDDL"
TableLike == objType \in {typeTable, typeView, typeMaterializedView}

Count(c, s) == Cardinality({i \in DOMAIN s : s[i] = c})
InSeq(x, s) == \E i \in DOMAIN s : s[i] = x
RowCount(ans) == IF ans.err THEN 0 ELSE Len(ans.rows)
StartsWith(s, pre) == Len(s) >= Len(pre) /\ SubSeq(s, 1, Len(pre)) = pre
EndsWith(s, suf) == Len(s) >= Len(suf) /\ SubSeq(s, Len(s) - Len(suf) + 1, Len(s)) = suf
Contains(s, x) == \E i \in 0..(Len(s) - Len(x)) : SubSeq(s, i + 1, i + Len(x)) = x

\* the facet a token of the result came from, in the order of the policy
\* (0: white space, which separates)
Facet(c) ==
    CASE c = "n" -> 1
      [] c = "c" -> 2
      [] c = "i" -> 3
      [] c \in {"ALTER", "a", "b"} -> 4
      [] c = "m" -> 5
      [] c = "k" -> 6
      [] c \in {"t", "ON", "\"", "HR", ".", "/"} -> 7
      [] c = "g" -> 8
      [] OTHER -> 0

InFacetOrder(s) ==
    \A i, j \in DOMAIN s :
        (i < j /\ Facet(s[i]) > 0 /\ Facet(s[j]) > 0) => Facet(s[i]) <= Facet(s[j])

FetchedDDL == IF db.ddl.err \/ db.ddl.rows = <<>> THEN <<>> ELSE db.ddl.rows[1]

\* C1: for a TABLE, VIEW or MATERIALIZED VIEW the text ExportDDL returns holds
\* the fragments in the order needed grants, CREATE, indices, ALTERs, object
\* comment, column comments, triggers, granted privileges: no token of a later
\* facet stands before a token of an earlier one, and a text that is returned
\* (without an error, or not empty) holds every fragment the queries answered,
\* the needed grants only under neededGrants, the granted privileges only
\* under objectGrants and the indices only for a TABLE or a MATERIALIZED VIEW.
C1_FixedOrder ==
    (Returned /\ TableLike) =>
        /\ InFacetOrder(ret.text)
        /\ (ret.err = "" \/ ret.text # <<>>) =>
            /\ Count("n", ret.text) = IF neededGrants THEN RowCount(db.need) ELSE 0
            /\ Count("c", ret.text) = Count("c", FetchedDDL)
            /\ Count("i", ret.text) =
                   IF objType = typeView THEN 0 ELSE RowCount(db.idx)
            /\ Count("ALTER", ret.text) = Count("ALTER", FetchedDDL)
            /\ Count("a", ret.text) = Count("a", FetchedDDL)
            /\ Count("b", ret.text) = Count("b", FetchedDDL)
            /\ Count("m", ret.text) = RowCount(db.com)
            /\ Count("k", ret.text) = RowCount(db.col)
            /\ Count("t", ret.text) = 2 * RowCount(db.trg)
            /\ Count("g", ret.text) = IF objectGrants THEN RowCount(db.grant) ELSE 0

C1_Witness ==
    /\ Returned /\ objType = typeTable /\ neededGrants /\ objectGrants
    /\ ret.err = ""
    /\ \A c \in {"n", "c", "i", "ALTER", "m", "k", "t", "g"} : Count(c, ret.text) > 0

\* C2: ExportDDL returns an error exactly when the fetch of the object's own
\* DDL fails; the failure of any other query is not reported to the caller.
C2_OnlyPrimaryFetchFails ==
    Returned => ((ret.err # "") <=> db.ddl.err)

\* C3: the text ExportDDL returns neither begins nor ends with the blank-line
\* separator and never holds two separators with nothing between them.
C3_EmptyFragmentsDropped ==
    (Returned /\ ret.err = "") =>
        /\ ~StartsWith(ret.text, dblSpace)
        /\ ~EndsWith(ret.text, dblSpace)
        /\ ~Contains(ret.text, dblSpace \o dblSpace)

\* C10: ExportDDL asks for the needed privileges only under neededGrants and
\* for the granted privileges only under objectGrants, for every object type;
\* with both flags off neither query is made and no grant is in the text.
C10_PrivQueriesGated ==
    Returned =>
        /\ InSeq("ObjNeededPrivs", ret.calls) => neededGrants
        /\ InSeq("ObjGrantedPrivs", ret.calls) => objectGrants
        /\ (~neededGrants /\ ~objectGrants) =>
               (Count("n", ret.text) = 0 /\ Count("g", ret.text) = 0)

C10_Witness ==
    /\ Returned /\ ~neededGrants /\ ~objectGrants /\ ret.err = ""
    /\ RowCount(db.need) > 0 /\ RowCount(db.grant) > 0
    /\ ret.text # <<>>
    /\ ~InSeq("ObjNeededPrivs", ret.calls) /\ ~InSeq("ObjGrantedPrivs", ret.calls)

\* the one row a privilege query answered, a blank line after it or before it
NeededPart == IF neededGrants
              THEN (IF RowCount(db.need) = 0 THEN <<>> ELSE db.need.rows[1]) \o dblSpace
              ELSE <<>>

GrantedPart == IF objectGrants
               THEN dblSpace \o (IF RowCount(db.grant) = 0 THEN <<>> ELSE db.grant.rows[1])
               ELSE <<>>

\* C12: for an object type other than TABLE, VIEW and MATERIALIZED VIEW,
\* ExportDDL calls ObjDDL and, under their flags, the two privilege queries,
\* and nothing else; when ObjDDL does not fail the text is what ObjDDL
\* returned, its ALTER statements where they were, after the needed-grants
\* fragment under neededGrants and before the granted-privileges fragment
\* under objectGrants, and holds nothing of the index, comment, column-comment
\* or trigger rows the database would answer.
C12_OtherTypesPlain ==
    (Returned /\ ~TableLike) =>
        /\ \A i \in DOMAIN ret.calls :
               ret.calls[i] \in {"ObjDDL", "ObjNeededPrivs", "ObjGrantedPrivs"}
        /\ Count("ObjDDL", ret.calls) = 1
        /\ \A c \in {"i", "m", "k", "t"} : Count(c, ret.text) = 0
        /\ ~db.ddl.err =>
               ret.text = NeededPart \o ObjDDL(db, objType).text \o GrantedPart

C12_Witness ==
    /\ Returned /\ ~TableLike /\ neededGrants /\ objectGrants /\ ret.err = ""
    /\ \A q \in {"idx", "com", "col", "trg"} : RowCount(db[q]) > 0
    /\ ret.text = <<"n", "\n", "\n", "c", "\n", "ALTER", " ", "b", "\n", "ALTER", " ", "a",
                    "\n", "\n", "g">>

\* strings.Split(s, "\n\n"): the fragments of a text joined by blank lines
RECURSIVE Fragments(_, _)
Fragments(s, cur) ==
    IF s = <<>> THEN <<cur>>
    ELSE IF Len(s) >= 2 /\ s[1] = "\n" /\ s[2] = "\n"
         THEN <<cur>> \o Fragments(SubSeq(s, 3, Len(s)), <<>>)
         ELSE Fragments(Tail(s), Append(cur, s[1]))

\* the places of the fetched DDL where an ALTER statement begins
AlterBoundaries(t) == {p \in 1..(Len(t) - 1) : t[p] = "ALTER" /\ t[p + 1] = " "}

\* C4: the ALTER fragments of the fetched DDL stand in the result in ascending
\* byte order, each beginning with the keyword ALTER, one for each ALTER
\* statement of the fetched DDL, all after the index fragment and before the
\* object comment.
C4_AltersSorted ==
    (Returned /\ TableLike /\ ret.err = "") =>
        LET f == Fragments(ret.text, <<>>)
            first == IF objType = typeView THEN 2 ELSE 3
            last == Len(f) - 3
        IN  /\ Len(f) >= first + 2
            /\ objType # typeView => f[2] = <<"i">>
            /\ f[last + 1] = <<"m">>
            /\ f[last + 2] = <<"k">>
            /\ last - first + 1 = Cardinality(AlterBoundaries(trimString(FetchedDDL)))
            /\ \A i \in first..last :
                   /\ f[i] # <<>> /\ f[i][1] = "ALTER"
                   /\ Len(f[i]) > 1 => f[i][2] = " "
            /\ \A i \in first..(last - 1) : ~Less(f[i + 1], f[i])

C4_Witness ==
    /\ Returned /\ objType = typeTable /\ ret.err = ""
    /\ LET s == SplitAlter(trimString(FetchedDDL), <<>>) IN
       /\ Len(s) = 3 /\ s[1] # <<>>
       /\ Less(s[3], s[2])
    /\ LET f == Fragments(ret.text, <<>>) IN Less(f[3], f[4])

\* the ALTER statement that begins at boundary p of t: from its keyword up to
\* the next boundary or the end of t, less the white space at its end
StatementAt(t, p) ==
    LET later == {q \in AlterBoundaries(t) : q > p}
        next == IF later = {} THEN Len(t) + 1
                ELSE CHOOSE q \in later : \A r \in later : q <= r
    IN  trimLine(SubSeq(t, p, next - 1))

\* what stands in t before its first boundary, less the white space at its end
CreateStatement(t) ==
    LET b == AlterBoundaries(t)
        first == IF b = {} THEN Len(t) + 1 ELSE CHOOSE q \in b : \A r \in b : q <= r
    IN  trimLine(SubSeq(t, 1, first - 1))

\* C15: of the trimmed DDL fetched for a table or view, the result holds the
\* CREATE statement once, as its first fragment (the whole trimmed DDL when it
\* has no ALTER boundary), and between the index fragment and the object
\* comment one fragment for each ALTER boundary; each statement of the DDL,
\* from its ALTER keyword to the next boundary less the white space before
\* that boundary, is among these fragments as often as it is in the DDL.
C15_SplitKeepsAll ==
    (Returned /\ TableLike /\ ret.err = "") =>
        LET t == trimString(FetchedDDL)
            f == Fragments(ret.text, <<>>)
            first == IF objType = typeView THEN 2 ELSE 3
            last == Len(f) - 3
            emitted(x) == Cardinality({i \in first..last : f[i] = x})
            fetched(x) == Cardinality({p \in AlterBoundaries(t) : StatementAt(t, p) = x})
        IN  /\ f[1] = CreateStatement(t)
            /\ AlterBoundaries(t) = {} => (f[1] = t /\ last = first - 1)
            /\ last - first + 1 = Cardinality(AlterBoundaries(t))
            /\ \A i \in first..last : emitted(f[i]) = fetched(f[i])
            /\ \A p \in AlterBoundaries(t) :
                   emitted(StatementAt(t, p)) = fetched(StatementAt(t, p))

C15_Witness ==
    /\ Returned /\ objType = typeTable /\ ret.err = ""
    /\ LET t == trimString(FetchedDDL) IN
       /\ Cardinality(AlterBoundaries(t)) = 2
       /\ CreateStatement(t) # <<>>
       /\ \E p \in AlterBoundaries(t) : p > 1 /\ t[p - 1] \in WS
       /\ Len(Fragments(ret.text, <<>>)) = 7

(***************************************************************************)
(* Properties of ObjTriggers.                                              *)
(***************************************************************************)
TriggerText == trimString(db.trg.rows[1])

\* the places where an ON clause begins: white space, ON in either case,
\* white space
OnPlaces(t) ==
    {p \in 1..(Len(t) - 2) : t[p] \in WS /\ t[p + 1] \in {"ON", "on"} /\ t[p + 2] \in WS}

FirstOn(t) == CHOOSE p \in OnPlaces(t) : \A q \in OnPlaces(t) : p <= q

\* where the table reference after the first ON begins and ends
RefStart(t) ==
    CHOOSE j \in (FirstOn(t) + 2)..(Len(t) + 1) :
        /\ j <= Len(t) => t[j] \notin WS
        /\ \A m \in (FirstOn(t) + 2)..(j - 1) : t[m] \in WS

RefEnd(t) ==
    CHOOSE k \in (RefStart(t) - 1)..Len(t) :
        /\ \A m \in RefStart(t)..k : t[m] \notin WS
        /\ k < Len(t) => t[k + 1] \in WS

Qualified(t) == \E m \in RefStart(t)..RefEnd(t) : t[m] = "."

\* C8: of a trigger text, when the table reference after the first ON clause
\* has no ".", the text up to the clause is followed by ON, the owning schema
\* in double quotes, "." and the text from the reference on; when the
\* reference has a ".", the text is left as it is; when there is no ON clause,
\* the text is left as it is and one warning is handed to carp, which logs it
\* unless the run is quiet, and ObjTriggers returns no error.  The text
\* ObjTriggers returns for a trigger without ALTER TRIGGER is the text after
\* this step, trimmed, with its block terminator.
C8_OnClauseQualified ==
    op = "ObjTriggers" =>
        LET t == TriggerText IN
        /\ ret.err = ""
        /\ Len(ret.fixed) = 1
        /\ OnPlaces(t) = {} =>
               /\ ret.fixed[1] = t
               /\ ret.carps = <<"Funky triggers">>
               /\ ret.logged = IF quiet THEN <<>> ELSE <<"Funky triggers">>
        /\ (OnPlaces(t) # {} /\ Qualified(t)) =>
               /\ ret.fixed[1] = t
               /\ ret.carps = <<>>
        /\ (OnPlaces(t) # {} /\ ~Qualified(t)) =>
               /\ ret.fixed[1] = SubSeq(t, 1, FirstOn(t) - 1)
                                 \o <<" ", "ON", " ", "\"", schema, "\"", ".">>
                                 \o SubSeq(t, RefStart(t), Len(t))
               /\ ret.carps = <<>>
        /\ Count("ALTER TRIGGER", t) = 0 =>
               ret.text = TrimRightSlash(ret.fixed[1]) \o newLine \o <<"/">>

C8_Witness ==
    /\ op = "ObjTriggers"
    /\ OnPlaces(TriggerText) # {}
    /\ ~Qualified(TriggerText)
    /\ \E m \in (RefEnd(TriggerText) + 1)..Len(TriggerText) : TriggerText[m] = "."
    /\ Contains(ret.text, <<"ON", " ", "\"", "HR", "\"", ".", "x">>)

\* C13: the text ObjTriggers returns for one trigger holds one fragment for
\* the CREATE TRIGGER and one for each ALTER TRIGGER of the fetched text, each
\* ALTER TRIGGER fragment beginning with ALTER TRIGGER, and every fragment
\* ending with a block terminator of its own after a text that ends with no
\* white space; a text with no ALTER TRIGGER comes back as one fragment with
\* one terminator; an ON clause or its absence makes no difference.
C13_SplitOnAlterTrigger ==
    op = "ObjTriggers" =>
        LET f == Fragments(ret.text, <<>>)
            n == Count("ALTER TRIGGER", TriggerText)
        IN  /\ Len(f) = n + 1
            /\ \A i \in DOMAIN f :
                   /\ EndsWith(f[i], newLine \o <<"/">>)
                   /\ Len(f[i]) > Len(newLine) + 1 =>
                          f[i][Len(f[i]) - Len(newLine) - 1] \notin WS
                   /\ i > 1 => (f[i] # <<>> /\ f[i][1] = "ALTER TRIGGER")
            /\ n = 0 => ret.text = TrimRightSlash(ret.fixed[1]) \o newLine \o <<"/">>

(***************************************************************************)
(* Properties of ObjDDL.                                                   *)
(***************************************************************************)
ViewLike == objType \in {typeView, typeMaterializedView}

Trimmed == trimString(db.ddl.rows[1])

\* the last line of a text: what follows its last "\n"
LastLineStart(t) ==
    CHOOSE p \in 1..(Len(t) + 1) :
        /\ p > 1 => t[p - 1] = "\n"
        /\ \A m \in p..Len(t) : t[m] # "\n"

MarkerInLastLine(t) ==
    \E m \in LastLineStart(t)..(Len(t) - 1) : t[m] = "-" /\ t[m + 1] = "-"

LineBreaks(t) == Count("\n", t)
NoLineEnds(t) == SelectSeq(t, LAMBDA c : c \notin {"\n", "\r"})

\* C9: for a view or materialized view ObjDDL returns the trimmed text with
\* one more line, holding ";" alone, when the last line of the trimmed text
\* holds the comment marker "--", and the trimmed text as it is otherwise; and
\* ObjDDL on what it returned returns the same text.
C9_ViewTerminator ==
    (op \in {"ObjDDL", "ObjDDL again"} /\ ViewLike) =>
        /\ MarkerInLastLine(Trimmed) =>
               /\ EndsWith(ret.text, newLine \o <<";">>)
               /\ LineBreaks(ret.text) = LineBreaks(Trimmed) + 1
               /\ NoLineEnds(ret.text) = NoLineEnds(Trimmed) \o <<";">>
        /\ ~MarkerInLastLine(Trimmed) => ret.text = Trimmed
        /\ op = "ObjDDL again" => ret.fixed = <<ret.text>>

C9_Witness ==
    /\ op = "ObjDDL again"
    /\ objType = typeView
    /\ MarkerInLastLine(Trimmed)
    /\ LineBreaks(Trimmed) > 0
    /\ ret.fixed = <<Trimmed \o newLine \o <<";">>>>

\* a text where every run of white space that ends a line and is followed by a
\* line holding "/" alone (up to the next "\n" or the end of the text) is one
\* "\n", and every other token is as it was
RECURSIVE TerminatorLinesCollapsed(_)
TerminatorLinesCollapsed(s) ==
    IF s = <<>> THEN <<>>
    ELSE LET n == WsRun(s) IN
         IF /\ n >= 1 /\ Len(s) >= n + 1
            /\ s[n] = "\n" /\ s[n + 1] = "/"
            /\ (Len(s) = n + 1 \/ s[n + 2] = "\n")
         THEN <<"\n", "/">> \o TerminatorLinesCollapsed(SubSeq(s, n + 2, Len(s)))
         ELSE <<s[1]>> \o TerminatorLinesCollapsed(Tail(s))

\* C14: for an object type other than view and materialized view, ObjDDL
\* returns the trimmed text with each run of white space before a line holding
\* "/" alone replaced by one "\n" and every other token unchanged, a "/" that
\* ends a line without being alone on it included.
C14_OnlyTerminatorLines ==
    (op = "ObjDDL" /\ ~ViewLike) => ret.text = TerminatorLinesCollapsed(Trimmed)

(***************************************************************************)
(* Spec: one run of the program, main from the parsed flags to the exit.   *)
(* The database fails or answers each call as it likes.                    *)
(***************************************************************************)
Queries == {"ddl", "idx", "com", "col", "trg", "need", "grant"}

OneRow == [ddl |-> <<"c">>, idx |-> <<"i">>, com |-> <<"m">>, col |-> <<"k">>,
           trg |-> <<"t", " ", "ON", " ", "t">>, need |-> <<"n">>, grant |-> <<"g">>]

\* a database where the queries of failing fail and the others answer one row
AnswersWith(failing) ==
    [q \in Queries |-> IF q \in failing THEN Failed ELSE Answer(FALSE, <<OneRow[q]>>)]

\* what may go wrong in one call of ExportDDL: nothing, or one query
Failures == {{}} \cup {{q} : q \in Queries}

ObjTypes == {typeTable, typeView, "PROCEDURE"}

\* the schemas the database may hold, and the first n of them
SchemaNames == <<"HR", "OE", "SH", "PM">>
Schemas(n) == SubSeq(SchemaNames, 1, n)

\* the error ExportDDL returns for an object of each owner and type, with
\* each failure and each pair of flags
ExportDDLErr ==
    [owner \in {SchemaNames[i] : i \in DOMAIN SchemaNames}, type \in ObjTypes,
     failing \in Failures, needed \in BOOLEAN, grants \in BOOLEAN |->
        ExportDDL(AnswersWith(failing), owner, type, needed, grants).err]

\* the sequence 1, ..., n
RECURSIVE UpTo(_)
UpTo(n) == IF n = 0 THEN <<>> ELSE Append(UpTo(n - 1), n)

InitMain ==
    /\ db = EmptyDb
    /\ schema = ""
    /\ objType = ""
    /\ op = ""
    /\ ret = Idle
    /\ quiet \in BOOLEAN
    /\ neededGrants \in BOOLEAN
    /\ objectGrants \in BOOLEAN
    /\ pc = "start"
    /\ mode \in {"version", "object", "schemas"}
    /\ handle = "none"
    /\ configured = FALSE
    /\ exitCode = -1
    /\ failedAt = ""
    /\ selected = <<>>
    /\ schemasLeft = <<>>
    /\ visited = <<>>
    /\ objsLeft = <<>>
    /\ attempted = <<>>
    /\ nFailed = 0
    /\ nWritten = 0
    /\ issued = NoCalls

\* main makes the call
Issue(call) == issued' = [issued EXCEPT ![call] = @ + 1]

bulkVars == <<selected, schemasLeft, visited, objsLeft, attempted, nFailed, nWritten>>

\* failOnErr with an error: carp, then os.Exit(1), which runs no deferred call
failOnErr(site) ==
    /\ Issue(site)
    /\ pc' = "exited"
    /\ exitCode' = 1
    /\ failedAt' = site
    /\ UNCHANGED <<handle, configured, mode, bulkVars, libVars, flagVars>>

\* failOnErr with nil: main goes on at next
GoOn(next) ==
    /\ pc' = next
    /\ UNCHANGED <<exitCode, failedAt, mode, libVars, flagVars>>

\* main: -version prints the version and exits 0
ShowVersion ==
    /\ pc = "start" /\ mode = "version"
    /\ pc' = "exited"
    /\ exitCode' = 0
    /\ UNCHANGED <<handle, configured, failedAt, mode, bulkVars, libVars, flagVars,
                   issued>>

\* main: p.GetPasswd()
GetPasswd ==
    /\ pc = "start" /\ mode # "version"
    /\ \/ GoOn("open") /\ Issue("GetPasswd") /\ UNCHANGED <<handle, configured, bulkVars>>
       \/ failOnErr("GetPasswd")

\* main: sql.Open, and the deferred db.Close once it succeeded
SqlOpen ==
    /\ pc = "open"
    /\ \/ /\ GoOn("init")
          /\ Issue("sql.Open")
          /\ handle' = "open"
          /\ UNCHANGED <<configured, bulkVars>>
       \/ failOnErr("sql.Open")

\* main handing the error of dex.InitDbmsMetadata to carp, not to failOnErr
InitDbmsMetadata_CarpOnly ==
    /\ pc = "init"
    /\ GoOn(IF mode = "object" THEN "objType" ELSE "schemas")
    /\ Issue("InitDbmsMetadata")
    /\ configured' \in BOOLEAN
    /\ UNCHANGED <<handle, bulkVars>>

\* main: dex.InitDbmsMetadata, then the switch on -o
InitDbmsMetadata ==
    /\ pc = "init"
    /\ \/ /\ GoOn(IF mode = "object" THEN "objType" ELSE "schemas")
          /\ Issue("InitDbmsMetadata")
          /\ configured' = TRUE
          /\ UNCHANGED <<handle, bulkVars>>
       \/ failOnErr("InitDbmsMetadata")

\* extractObject: dex.ObjType
ObjType ==
    /\ pc = "objType"
    /\ \/ GoOn("export") /\ Issue("ObjType") /\ UNCHANGED <<handle, configured, bulkVars>>
       \/ failOnErr("ObjType")

\* extractObject: dex.ExportDDL of the one object, printed
extractObject ==
    /\ pc = "export"
    /\ \E type \in ObjTypes, failing \in Failures :
       \E e \in {ExportDDLErr["HR", type, failing, neededGrants, objectGrants]} :
          \/ e # "" /\ failOnErr("ExportDDL")
          \/ /\ e = ""
             /\ GoOn("return")
             /\ Issue("ExportDDL")
             /\ UNCHANGED <<handle, configured, bulkVars>>

\* extractSchemas: getSchemaList
extractSchemas ==
    /\ pc = "schemas"
    /\ \/ \E n \in 0..MaxSchemas :
             /\ GoOn("schema")
             /\ Issue("getSchemaList")
             /\ selected' = Schemas(n)
             /\ schemasLeft' = Schemas(n)
             /\ UNCHANGED <<handle, configured, visited, objsLeft, attempted, nFailed,
                            nWritten>>
       \/ failOnErr("getSchemaList")

\* extractSchemas: the loop is over
SchemasDone ==
    /\ pc = "schema" /\ schemasLeft = <<>>
    /\ GoOn("return")
    /\ UNCHANGED <<handle, configured, bulkVars, issued>>

\* extractSchema: getObjList; no object is carped and the schema is left
extractSchema ==
    /\ pc = "schema" /\ schemasLeft # <<>>
    /\ \/ \E n \in 0..MaxObjs :
             /\ GoOn(IF n = 0 THEN "schema" ELSE "object")
             /\ Issue("getObjList")
             /\ visited' = Append(visited, Head(schemasLeft))
             /\ objsLeft' = UpTo(n)
             /\ schemasLeft' = IF n = 0 THEN Tail(schemasLeft) ELSE schemasLeft
             /\ UNCHANGED <<handle, configured, selected, attempted, nFailed, nWritten>>
       \/ failOnErr("getObjList")

\* extractSchema's loop body after an error of ExportDDL ends the process
LoopBody_FailOnErr(mkdirOk, err, writeOk) ==
    IF ~mkdirOk
    THEN [next |-> "continue", called |-> FALSE, failed |-> TRUE, wrote |-> FALSE]
    ELSE IF err # ""
    THEN [next |-> "exit", called |-> TRUE, failed |-> TRUE, wrote |-> FALSE]
    ELSE [next |-> "continue", called |-> TRUE, failed |-> ~writeOk, wrote |-> writeOk]

\* extractSchema's loop body after an error leaves the loop
LoopBody_Break(mkdirOk, err, writeOk) ==
    IF ~mkdirOk
    THEN [next |-> "break", called |-> FALSE, failed |-> TRUE, wrote |-> FALSE]
    ELSE IF err # ""
    THEN [next |-> "break", called |-> TRUE, failed |-> TRUE, wrote |-> FALSE]
    ELSE [next |-> "continue", called |-> TRUE, failed |-> ~writeOk, wrote |-> writeOk]

\* extractSchema's loop body for one object: os.MkdirAll, dex.ExportDDL
\* (err is its error), ioutil.WriteFile; how the loop goes on
LoopBody(mkdirOk, err, writeOk) ==
    IF ~mkdirOk
    THEN [next |-> "continue", called |-> FALSE, failed |-> TRUE, wrote |-> FALSE]
    ELSE IF err # ""
    THEN [next |-> "continue", called |-> TRUE, failed |-> TRUE, wrote |-> FALSE]
    ELSE [next |-> "continue", called |-> TRUE, failed |-> ~writeOk, wrote |-> writeOk]

\* extractSchema: one turn of the loop over the objects
extractSchemaObject ==
    /\ pc = "object"
    /\ \E type \in ObjTypes, failing \in Failures, mkdirOk \in BOOLEAN,
          writeOk \in BOOLEAN :
       \E b \in {LoopBody(mkdirOk,
                          ExportDDLErr[Head(schemasLeft), type, failing, neededGrants,
                                       objectGrants],
                          writeOk)} :
          LET left == IF b.next = "break" THEN <<>> ELSE Tail(objsLeft) IN
          /\ attempted' = Append(attempted, <<Head(schemasLeft), Head(objsLeft)>>)
          /\ nFailed' = nFailed + (IF b.failed THEN 1 ELSE 0)
          /\ nWritten' = nWritten + (IF b.wrote THEN 1 ELSE 0)
          /\ objsLeft' = left
          /\ schemasLeft' = IF left = <<>> THEN Tail(schemasLeft) ELSE schemasLeft
          /\ pc' = IF b.next = "exit" THEN "exited"
                   ELSE IF left = <<>> THEN "schema" ELSE "object"
          /\ exitCode' = IF b.next = "exit" THEN 1 ELSE exitCode
          /\ failedAt' = IF b.next = "exit" THEN "ExportDDL" ELSE failedAt
          /\ issued' = IF b.called THEN [issued EXCEPT !["ExportDDL"] = @ + 1]
                        ELSE issued
          /\ UNCHANGED <<handle, configured, mode, selected, visited, libVars, flagVars>>

\* main returns: the deferred db.Close runs and the process exits 0
MainReturn ==
    /\ pc = "return"
    /\ pc' = "exited"
    /\ handle' = "closed"
    /\ exitCode' = 0
    /\ UNCHANGED <<configured, failedAt, mode, bulkVars, libVars, flagVars, issued>>

Next ==
    \/ ShowVersion
    \/ GetPasswd
    \/ SqlOpen
    \/ InitDbmsMetadata
    \/ ObjType
    \/ extractObject
    \/ extractSchemas
    \/ SchemasDone
    \/ extractSchema
    \/ extractSchemaObject
    \/ MainReturn

Init == InitMain

Spec == Init /\ [][Next]_vars

\* the program is sequential and every call returns: main always takes its
\* next step
SpecLive == Spec /\ WF_vars(Next)

(***************************************************************************)
(* Properties of a run.                                                    *)
(***************************************************************************)
Exited == pc = "exited"

\* C5: when the process has exited after the handle was opened, the handle
\* was closed.
C5_HandleClosedAtExit ==
    (Exited /\ handle # "none") => handle = "closed"

\* a turn of extractSchema's loop, whatever fails in it, begins the next
\* object's extraction, ends no process and drops nothing that is left to do
ObjectTurn ==
    pc = "object" =>
        /\ pc' \in {"object", "schema"}
        /\ exitCode' = -1
        /\ attempted' = Append(attempted, <<Head(schemasLeft), Head(objsLeft)>>)
        /\ objsLeft' = Tail(objsLeft)
        /\ schemasLeft' = IF Tail(objsLeft) = <<>> THEN Tail(schemasLeft)
                          ELSE schemasLeft
        /\ nFailed' + nWritten' = nFailed + nWritten + 1

\* only a turn of the loop takes an object from those still to extract, and
\* only the end of a schema's objects takes a schema from those still to extract
OnlyTurnsTake ==
    /\ (objsLeft # <<>> /\ objsLeft' # objsLeft) => pc = "object"
    /\ (schemasLeft # <<>> /\ schemasLeft' # schemasLeft) =>
           /\ pc \in {"object", "schema"}
           /\ schemasLeft' = Tail(schemasLeft)
           /\ objsLeft' = <<>>
           /\ visited'[Len(visited')] = Head(schemasLeft)

\* where the extraction of schemas is over, nothing is left to extract unless
\* the listing of a schema's objects failed, and every object listed was
\* attempted
NothingSkipped ==
    (mode = "schemas" /\ pc \in {"return", "exited"} /\ failedAt # "getSchemaList"
     /\ configured) =>
        /\ objsLeft = <<>>
        /\ nFailed + nWritten = Len(attempted)
        /\ failedAt = "" => (schemasLeft = <<>> /\ visited = selected)
        /\ failedAt # "" => (failedAt = "getObjList" /\ schemasLeft # <<>>)

\* C6: in the extraction of schemas, a turn of the loop over the objects never
\* ends the process whatever fails in it (the directory, ExportDDL or a query
\* inside it, the file) and takes exactly one object, the next one; nothing
\* else drops an object or a schema still to extract, so that every remaining
\* object and schema is attempted unless the listing of a schema's objects
\* fails; and the run comes to its exit.
C6_BulkExtractionGoesOn ==
    /\ [][ObjectTurn /\ OnlyTurnsTake]_vars
    /\ []NothingSkipped
    /\ (pc = "object") ~> Exited

C6_Witness ==
    /\ Exited /\ exitCode = 0 /\ mode = "schemas"
    /\ Len(attempted) = MaxSchemas * MaxObjs
    /\ nFailed = Len(attempted)

Fetches == {"ObjType", "ExportDDL", "getSchemaList", "getObjList"}

Fetched == \E f \in Fetches : issued[f] > 0

\* a step that fetches is taken with the handle open and the session configured;
\* the step that configures is taken with the handle open, before any fetch,
\* and once; a configured session stays configured
ConfiguredFirst ==
    /\ \A f \in Fetches : issued'[f] > issued[f] => (configured /\ handle = "open")
    /\ issued'["InitDbmsMetadata"] > issued["InitDbmsMetadata"] =>
           /\ handle = "open"
           /\ issued["InitDbmsMetadata"] = 0
           /\ ~Fetched
    /\ configured => (configured' /\ issued'["InitDbmsMetadata"] = 1)
    /\ configured' # configured =>
           issued'["InitDbmsMetadata"] > issued["InitDbmsMetadata"]

\* C11: InitDbmsMetadata is called at most once in a run, with the handle open
\* and before any call that fetches DDL or queries the metadata (ObjType,
\* ExportDDL, getSchemaList, getObjList); a run that fetches has called it
\* exactly once, with success; when it fails the process exits and nothing is
\* ever fetched; and no later step changes the configuration.
C11_ConfiguredOnceBeforeFetch ==
    /\ [](/\ issued["InitDbmsMetadata"] <= 1
          /\ issued["InitDbmsMetadata"] = 1 => issued["sql.Open"] = 1
          /\ configured => issued["InitDbmsMetadata"] = 1
          /\ Fetched => configured
          /\ failedAt = "InitDbmsMetadata" => (Exited /\ ~configured /\ ~Fetched))
    /\ [][ConfiguredFirst]_vars

C11_Witness ==
    /\ Exited /\ mode = "schemas" /\ configured
    /\ issued["InitDbmsMetadata"] = 1
    /\ issued["getSchemaList"] = 1
    /\ issued["getObjList"] = MaxSchemas
    /\ issued["ExportDDL"] >= 2

====
